---- MODULE Spec2Model ----
(***************************************************************************)
(* JAProxy: the Result carrier (Result.h) and the JKAListener              *)
(* (JKAListener.cpp): filter string, datalink negotiation, the capture     *)
(* loop bridged to a future, and the per-frame dispatch to the two sinks.  *)
(*                                                                         *)
(* std::optional<X> is modelled as a sequence of length at most one:       *)
(* <<>> is the empty optional, <<x>> holds x.                              *)
(***************************************************************************)
EXTENDS Integers, Sequences, FiniteSets, TLC

VARIABLES
    serverAddr,     \* JKAListener::serverAddr, dotted IPv4 string
    serverPort,     \* JKAListener::serverPort
    startPc,        \* position of the thread that starts the listener
    startError,     \* optional JKAListenerException [step, what] raised by start
    lastStep,       \* name of the adapter operation whose Result was last inspected
    lastRes,        \* optional Result: the Result that operation returned
    datalink,       \* the adapter's current datalink type
    dlBefore,       \* optional: datalink on entry to trySetKnownDatalink
    supportedRes,   \* optional Result of getSupportedDatalinks()
    setCalls,       \* arguments of the setDatalink calls made, in order
    filterStr,      \* optional: the string createFilterStr() returned
    breakFlag,      \* the adapter's break request flag
    stopCalls,      \* number of breakLoop() calls made so far
    stopRunning,    \* some breakLoop() call was made while the loop was running
    loopPc,         \* position of the capture thread
    loopEnd,        \* how the capture loop ended
    completion,     \* state of the std::future<bool> startLoop() returned
    captured,       \* frames the capture loop delivered to the callback, in order
    sinkLog         \* call / return events of the two sinks, in order

vars == <<serverAddr, serverPort, startPc, startError, lastStep, lastRes,
          datalink, dlBefore, supportedRes, setCalls, filterStr, breakFlag,
          stopCalls, stopRunning, loopPc, loopEnd, completion, captured, sinkLog>>

(***************************************************************************)
(* Bounds of the model.                                                    *)
(***************************************************************************)
MaxFrames == 2
MaxStops == 2
MaxSupported == 2
MaxPayload == 1

(***************************************************************************)
(* Result<T> (Result.h).                                                   *)
(***************************************************************************)
value_or(opt, dflt) == IF opt = <<>> THEN dflt ELSE opt[1]

successWithEmptyMessage(v) ==
    [result |-> <<v>>, resultSuccess |-> TRUE, errorMessage |-> <<"">>]

success(v) == [result |-> <<v>>, resultSuccess |-> TRUE, errorMessage |-> <<>>]

failWith(v, message) ==
    [result |-> <<v>>, resultSuccess |-> FALSE, errorMessage |-> <<message>>]

fail(message) ==
    [result |-> <<>>, resultSuccess |-> FALSE, errorMessage |-> <<message>>]

\* The predicates and the lazy diagnostics the adapter passes to the carrier.
Preds == {"isZero", "notNegative"}
isSuccessPred(pred, v) == IF pred = "isZero" THEN v = 0 ELSE v >= 0

ErrGetters == {"geterr", "noText"}
getErrorMessage(getter, v) == IF getter = "geterr" THEN "pcap: failure" ELSE ""

successOnPred(v, message, pred) ==
    IF isSuccessPred(pred, v) THEN success(v) ELSE failWith(v, message)

successOnPredLazy(v, getter, pred) ==
    IF isSuccessPred(pred, v) THEN success(v)
    ELSE failWith(v, getErrorMessage(getter, v))

successOnZero(v, message) == successOnPred(v, message, "isZero")

successOnZeroLazy(v, getter) ==
    IF v = 0 THEN success(v) ELSE failWith(v, getErrorMessage(getter, v))

\* A Result nobody filled in: Result{} (no value, not a success, no message).
emptyResult == [result |-> <<>>, resultSuccess |-> FALSE, errorMessage |-> <<>>]

isSuccess(res) == res.resultSuccess

errorStr(res) == value_or(res.errorMessage, "(no error message)")

\* Return codes and diagnostics of the platform capture primitive.
Codes == {-1, 0, 1}
Messages == {"", "permission denied"}

\* Every Result an int-returning adapter operation can build with the carrier.
PcapResults ==
    {success(v) : v \in Codes}
    \cup {failWith(v, m) : v \in Codes, m \in Messages}
    \cup {fail(m) : m \in Messages}
    \cup {successOnPred(v, m, p) : v \in Codes, m \in Messages, p \in Preds}
    \cup {successOnPredLazy(v, g, p) : v \in Codes, g \in ErrGetters, p \in Preds}
    \cup {successOnZero(v, m) : v \in Codes, m \in Messages}
    \cup {successOnZeroLazy(v, g) : v \in Codes, g \in ErrGetters}
    \cup {emptyResult}

(***************************************************************************)
(* The server endpoint, the capture adapter and the UDP/IP framer.         *)
(***************************************************************************)
\* The server endpoints a listener of the model is constructed with.
ServerEndpoints ==
    {[addr |-> "1.2.3.4", port |-> 29070], [addr |-> "192.168.1.10", port |-> 80]}

\* Formatting of an unsigned integer by operator<<: decimal, no padding.
DigitChars == <<"0", "1", "2", "3", "4", "5", "6", "7", "8", "9">>

RECURSIVE ToDecimal(_)
ToDecimal(n) ==
    IF n < 10 THEN DigitChars[n + 1]
    ELSE ToDecimal(n \div 10) \o DigitChars[(n % 10) + 1]

createFilterStrDstOnly ==
    "udp and ((dst " \o serverAddr
        \o " and dst port " \o ToDecimal(serverPort) \o ") or (src "
        \o serverAddr \o " and dst port " \o ToDecimal(serverPort) \o "))"

createFilterStr ==
    "udp and ((dst " \o serverAddr
        \o " and dst port " \o ToDecimal(serverPort) \o ") or (src "
        \o serverAddr \o " and src port " \o ToDecimal(serverPort) \o "))"

\* Link-layer types of the adapter; "known" ones are those the framer can strip.
Datalinks == {"EN10MB", "RAW", "IEEE802_11"}
isDatalinkKnown(dl) == dl \in {"EN10MB", "RAW"}

SupportedLists == UNION {[1..n -> Datalinks] : n \in 0..MaxSupported}

\* Every Result getSupportedDatalinks() can return.
SupportedResults ==
    {success(l) : l \in SupportedLists} \cup {fail(m) : m \in Messages}
    \cup {emptyResult}

\* Pcap::setDatalink: the type is installed only when the primitive accepted it.
setDatalink(cur, dl, res) == IF isSuccess(res) THEN dl ELSE cur

throwOnResultFailNoDiag(step, res) ==
    IF ~isSuccess(res)
    THEN <<[step |-> step, what |-> "(no error message)"]>>
    ELSE <<>>

\* The exception thrown, if any.
throwOnResultFail(step, res) ==
    IF ~isSuccess(res)
    THEN <<[step |-> step, what |-> errorStr(res)]>>
    ELSE <<>>

RECURSIVE scanSupportedLast(_, _)
scanSupportedLast(list, it) ==
    IF it > Len(list) THEN it
    ELSE LET later == scanSupportedLast(list, it + 1)
         IN IF later <= Len(list) THEN later
            ELSE IF isDatalinkKnown(list[it]) THEN it
            ELSE Len(list) + 1

\* The for loop of trySetKnownDatalink: the position of the first known entry
\* at or after it, or Len(list) + 1 (the end iterator).
RECURSIVE scanSupported(_, _)
scanSupported(list, it) ==
    IF it > Len(list) THEN it
    ELSE IF isDatalinkKnown(list[it]) THEN it
    ELSE scanSupported(list, it + 1)

\* The outcome of trySetKnownDatalink on an adapter whose current datalink is
\* cur, whose getSupportedDatalinks() returns sup and whose setDatalink()
\* returns setRes: the exception thrown, the setDatalink calls made, the
\* datalink left installed, and the Results inspected.
trySetKnownDatalink(cur, sup, setRes) ==
    IF isDatalinkKnown(cur)
    THEN [thrown |-> <<>>, calls |-> <<>>, datalink |-> cur,
          supported |-> <<>>, step |-> "none", res |-> <<>>]
    ELSE IF ~isSuccess(sup)
    THEN [thrown |-> <<[step |-> "getting supported datalinks",
                        what |-> errorStr(sup)]>>,
          calls |-> <<>>, datalink |-> cur,
          supported |-> <<sup>>, step |-> "getting supported datalinks",
          res |-> <<sup>>]
    ELSE LET list == sup.result[1]
             it == scanSupported(list, 1)
         IN IF it > Len(list)
            THEN [thrown |-> <<[step |-> "getting supported datalinks",
                                what |-> "no supported datalinks"]>>,
                  calls |-> <<>>, datalink |-> cur,
                  supported |-> <<sup>>,
                  step |-> "getting supported datalinks", res |-> <<sup>>]
            ELSE [thrown |-> throwOnResultFail("setting supported datalink", setRes),
                  calls |-> <<list[it]>>,
                  datalink |-> setDatalink(cur, list[it], setRes),
                  supported |-> <<sup>>,
                  step |-> "setting supported datalink", res |-> <<setRes>>]

(***************************************************************************)
(* Frames and the UDP/IP framer.  A frame is given by the header fields    *)
(* the framer reads and by the bytes captured after the UDP header.        *)
(***************************************************************************)
Bytes == {0, 255}
Payloads == UNION {[1..n -> Bytes] : n \in 0..MaxPayload}
\* The payloads of the server's answers: an empty one and one of NUL bytes.
ServerPayloads == {<<>>, [i \in 1..MaxPayload |-> 0]}

ClientAddr == "10.0.0.5"
OtherAddr == "10.0.0.7"

UdpFrame(src, sport, dst, dport, payload) ==
    [version |-> 4, ihl |-> 5, protocol |-> 17, mf |-> FALSE, fragOffset |-> 0,
     src |-> src, sport |-> sport, dst |-> dst, dport |-> dport,
     udpLength |-> 8 + Len(payload), data |-> payload]

\* Frames the capture loop can deliver to a listener bound to addr:port:
\* well-formed ones in both directions, unrelated ones, one with link-layer
\* padding after the UDP payload, and ones the framer rejects.
FramesFor(addr, port) ==
    LET toServer == UdpFrame(ClientAddr, 50000, addr, port, <<255>>)
    IN  {UdpFrame(ClientAddr, 50000, addr, port, p) : p \in Payloads}
        \cup {UdpFrame(addr, port, ClientAddr, 50000, p) : p \in ServerPayloads}
        \cup {UdpFrame(ClientAddr, 50000, OtherAddr, 27015, <<255>>),
              UdpFrame(addr, port, addr, port, <<255>>),
              [toServer EXCEPT !.data = <<255, 0>>],
              [toServer EXCEPT !.version = 6],
              [toServer EXCEPT !.protocol = 6],
              [toServer EXCEPT !.mf = TRUE],
              [toServer EXCEPT !.udpLength = 10]}

\* SimpleUdpPacket::fromRawIp: the UDP view of the frame, or nothing.
fromRawIp(frame) ==
    IF /\ frame.version = 4
       /\ frame.ihl >= 5
       /\ frame.protocol = 17
       /\ ~frame.mf
       /\ frame.fragOffset = 0
       /\ frame.udpLength >= 8
       /\ frame.udpLength - 8 <= Len(frame.data)
    THEN <<[src |-> frame.src, sport |-> frame.sport,
            dst |-> frame.dst, dport |-> frame.dport,
            data |-> SubSeq(frame.data, 1, frame.udpLength - 8)]>>
    ELSE <<>>

\* JKAListener::getPacketDirection.
getPacketDirection(udp) ==
    LET fromServer == udp.src = serverAddr /\ udp.sport = serverPort
        toServer == udp.dst = serverAddr /\ udp.dport = serverPort
    IN  IF fromServer /\ ~toServer THEN "FROM_SERVER"
        ELSE IF toServer /\ ~fromServer THEN "FROM_CLIENT"
        ELSE "NOT_RELATED"

\* std::string(const char *): the bytes before the first NUL.
RECURSIVE CString(_)
CString(span) ==
    IF span = <<>> \/ Head(span) = 0 THEN <<>>
    ELSE <<Head(span)>> \o CString(Tail(span))

\* JKA::Protocol::RawPacket(std::string(span.to_sv())): an owned copy of the
\* span, byte by byte, with its length.
RawPacket(span) == [i \in 1..Len(span) |-> span[i]]

packetArrivedCStr(packet) ==
    LET udpOpt == fromRawIp(packet)
    IN  IF udpOpt = <<>> THEN <<>>
        ELSE LET udp == udpOpt[1]
                 packetDir == getPacketDirection(udp)
             IN  CASE packetDir = "FROM_CLIENT" ->
                        <<[sink |-> "packetFromClient", packet |-> CString(udp.data)]>>
                   [] packetDir = "FROM_SERVER" ->
                        <<[sink |-> "packetFromServer", packet |-> CString(udp.data)]>>
                   [] OTHER -> <<>>

packetArrivedNoCheck(packet) ==
    LET udpOpt == fromRawIp(packet)
    IN  IF udpOpt = <<>>
        THEN <<[sink |-> "packetFromClient", packet |-> <<>>]>>
        ELSE LET udp == udpOpt[1]
                 packetDir == getPacketDirection(udp)
             IN  CASE packetDir = "FROM_CLIENT" ->
                        <<[sink |-> "packetFromClient", packet |-> RawPacket(udp.data)]>>
                   [] packetDir = "FROM_SERVER" ->
                        <<[sink |-> "packetFromServer", packet |-> RawPacket(udp.data)]>>
                   [] OTHER -> <<>>

\* JKAListener::packetArrived up to its sink call: the call it makes, if any.
packetArrived(packet) ==
    LET udpOpt == fromRawIp(packet)
    IN  IF udpOpt = <<>> THEN <<>>
        ELSE LET udp == udpOpt[1]
                 packetDir == getPacketDirection(udp)
             IN  CASE packetDir = "FROM_CLIENT" ->
                        <<[sink |-> "packetFromClient", packet |-> RawPacket(udp.data)]>>
                   [] packetDir = "FROM_SERVER" ->
                        <<[sink |-> "packetFromServer", packet |-> RawPacket(udp.data)]>>
                   [] OTHER -> <<>>

(***************************************************************************)
(* The listener as a state machine.                                        *)
(***************************************************************************)
Init ==
    /\ \E endpoint \in ServerEndpoints :
          serverAddr = endpoint.addr /\ serverPort = endpoint.port
    /\ startPc = "constructed"
    /\ startError = <<>>
    /\ lastStep = "none"
    /\ lastRes = <<>>
    /\ datalink = "unopened"
    /\ dlBefore = <<>>
    /\ supportedRes = <<>>
    /\ setCalls = <<>>
    /\ filterStr = <<>>
    /\ breakFlag = FALSE
    /\ stopCalls = 0
    /\ stopRunning = FALSE
    /\ loopPc = "notStarted"
    /\ loopEnd = "none"
    /\ completion = "none"
    /\ captured = <<>>
    /\ sinkLog = <<>>

loopVars == <<loopPc, loopEnd, completion, captured, sinkLog>>
negotiationVars == <<dlBefore, supportedRes, setCalls>>
endpointVars == <<serverAddr, serverPort>>
stopVars == <<breakFlag, stopCalls, stopRunning>>

\* start, step 1: the adapter opens the device; res is what open returned and
\* dl the link-layer type of the opened device.
OpenDevice(res, dl) ==
    /\ startPc = "constructed"
    /\ lastStep' = "opening device"
    /\ lastRes' = <<res>>
    /\ startError' = throwOnResultFail("opening device", res)
    /\ startPc' = IF startError' = <<>> THEN "opened" ELSE "failed"
    /\ datalink' = IF isSuccess(res) THEN dl ELSE datalink
    /\ UNCHANGED <<endpointVars, negotiationVars, filterStr, stopVars, loopVars>>

\* start, step 2: trySetKnownDatalink(pcap).
NegotiateDatalink(sup, setRes) ==
    /\ startPc = "opened"
    /\ LET out == trySetKnownDatalink(datalink, sup, setRes)
       IN  /\ dlBefore' = <<datalink>>
           /\ supportedRes' = out.supported
           /\ setCalls' = out.calls
           /\ datalink' = out.datalink
           /\ lastStep' = out.step
           /\ lastRes' = out.res
           /\ startError' = out.thrown
           /\ startPc' = IF out.thrown = <<>> THEN "negotiated" ELSE "failed"
    /\ UNCHANGED <<endpointVars, filterStr, stopVars, loopVars>>

\* start, step 3: the filter createFilterStr() returns is compiled and
\* installed; the locals of the negotiation are gone.
SetFilter(res) ==
    /\ startPc = "negotiated"
    /\ filterStr' = <<createFilterStr>>
    /\ lastStep' = "setting filter"
    /\ lastRes' = <<res>>
    /\ startError' = throwOnResultFail("setting filter", res)
    /\ startPc' = IF startError' = <<>> THEN "filtered" ELSE "failed"
    /\ dlBefore' = <<>>
    /\ supportedRes' = <<>>
    /\ setCalls' = <<>>
    /\ UNCHANGED <<endpointVars, datalink, stopVars, loopVars>>

\* startLoop(): std::async launches the capture thread and hands back the future.
StartLoop ==
    /\ startPc = "filtered"
    /\ startPc' = "started"
    /\ loopPc' = "capturing"
    /\ completion' = "pending"
    /\ lastStep' = "none"
    /\ lastRes' = <<>>
    /\ UNCHANGED <<endpointVars, startError, datalink, negotiationVars,
                   filterStr, stopVars, loopEnd, captured, sinkLog>>

BreakLoopToggle ==
    /\ stopCalls < MaxStops
    /\ loopPc # "terminated"
    /\ breakFlag' = ~breakFlag
    /\ stopCalls' = stopCalls + 1
    /\ stopRunning' = (stopRunning \/ loopPc \in {"capturing", "inSink"})
    /\ UNCHANGED <<endpointVars, startPc, startError, lastStep, lastRes,
                   datalink, negotiationVars, filterStr, loopVars>>

\* breakLoop(): pcap.breakLoop() raises the adapter's break request.
BreakLoop ==
    /\ stopCalls < MaxStops
    /\ loopPc # "terminated"
    /\ breakFlag' = TRUE
    /\ stopCalls' = stopCalls + 1
    /\ stopRunning' = (stopRunning \/ loopPc \in {"capturing", "inSink"})
    /\ UNCHANGED <<endpointVars, startPc, startError, lastStep, lastRes,
                   datalink, negotiationVars, filterStr, loopVars>>

startVars == <<startPc, startError, lastStep, lastRes, datalink,
               negotiationVars, filterStr>>

CaptureCallbackDetached(packet) ==
    /\ loopPc = "capturing"
    /\ ~breakFlag
    /\ Len(captured) < MaxFrames
    /\ captured' = Append(captured, packet)
    /\ LET call == packetArrived(packet)
       IN  /\ loopPc' = "capturing"
           /\ sinkLog' = IF call = <<>> THEN sinkLog
                         ELSE Append(sinkLog, [ev |-> "call", sink |-> call[1].sink,
                                               frame |-> Len(captured) + 1,
                                               packet |-> call[1].packet])
    /\ UNCHANGED <<endpointVars, startVars, stopVars, loopEnd, completion>>

\* The capture loop delivers a frame: the callback of startLoop() runs
\* packetArrived(packet), which returns at once or enters a sink.
CaptureCallback(packet) ==
    /\ loopPc = "capturing"
    /\ ~breakFlag
    /\ Len(captured) < MaxFrames
    /\ captured' = Append(captured, packet)
    /\ LET call == packetArrived(packet)
       IN  IF call = <<>>
           THEN loopPc' = "capturing" /\ sinkLog' = sinkLog
           ELSE /\ loopPc' = "inSink"
                /\ sinkLog' = Append(sinkLog, [ev |-> "call", sink |-> call[1].sink,
                                               frame |-> Len(captured) + 1,
                                               packet |-> call[1].packet])
    /\ UNCHANGED <<endpointVars, startVars, stopVars, loopEnd, completion>>

\* The sink returns; packetArrived and the callback return to the loop.
SinkReturns ==
    /\ loopPc = "inSink"
    /\ loopPc' = "capturing"
    /\ sinkLog' = Append(sinkLog, [sinkLog[Len(sinkLog)] EXCEPT !.ev = "return"])
    /\ UNCHANGED <<endpointVars, startVars, stopVars, loopEnd, completion, captured>>

\* The sink throws.  Neither packetArrived nor the callback of startLoop()
\* has a handler, so the exception leaves the callback and unwinds the
\* capture loop: either it reaches the task of std::async, which stores it
\* in the future, or the unwinding fails in the frames of the capture
\* primitive and std::terminate ends the process.
SinkThrows(unwound) ==
    /\ loopPc = "inSink"
    /\ sinkLog' = Append(sinkLog, [sinkLog[Len(sinkLog)] EXCEPT !.ev = "throw"])
    /\ loopEnd' = "exception"
    /\ IF unwound
       THEN loopPc' = "ended" /\ completion' = "exception"
       ELSE loopPc' = "terminated" /\ completion' = completion
    /\ UNCHANGED <<endpointVars, startVars, stopVars, captured>>

\* startLoopIPBlocking returns; the task of std::async stores isSuccess().
LoopReturns(how) ==
    /\ loopPc = "capturing"
    /\ IF breakFlag THEN how = "break" ELSE how \in {"eof", "error"}
    /\ loopPc' = "ended"
    /\ loopEnd' = how
    /\ completion' = IF how = "error" THEN "notClean" ELSE "clean"
    /\ UNCHANGED <<endpointVars, startVars, stopVars, captured, sinkLog>>

Next ==
    \/ \E res \in PcapResults, dl \in Datalinks : OpenDevice(res, dl)
    \/ \E sup \in SupportedResults, setRes \in PcapResults :
          NegotiateDatalink(sup, setRes)
    \/ \E res \in PcapResults : SetFilter(res)
    \/ StartLoop
    \/ BreakLoop
    \/ \E packet \in FramesFor(serverAddr, serverPort) : CaptureCallback(packet)
    \/ SinkReturns
    \/ \E unwound \in BOOLEAN : SinkThrows(unwound)
    \/ \E how \in {"break", "eof", "error"} : LoopReturns(how)

Spec == Init /\ [][Next]_vars

(***************************************************************************)
(* Properties.                                                             *)
(***************************************************************************)
\* The bytes of the UDP payload of a frame: those after the 8-byte UDP
\* header, up to the length the UDP header declares.
UdpPayload(frame) == SubSeq(frame.data, 1, frame.udpLength - 8)

Parsed(frame) == fromRawIp(frame) # <<>>
DirectionOf(frame) == getPacketDirection(fromRawIp(frame)[1])
Dispatched(frame) == Parsed(frame) /\ DirectionOf(frame) # "NOT_RELATED"

CallsFor(i, sink) ==
    {k \in 1..Len(sinkLog) :
        sinkLog[k].ev = "call" /\ sinkLog[k].frame = i /\ sinkLog[k].sink = sink}

C2_SerialCaptureOrder ==
    /\ \A k \in 1..Len(sinkLog) :
          /\ (sinkLog[k].ev = "call") <=> (k % 2 = 1)
          /\ k % 2 = 0 =>
                /\ sinkLog[k].frame = sinkLog[k - 1].frame
                /\ sinkLog[k].sink = sinkLog[k - 1].sink
          /\ sinkLog[k].sink =
                (IF DirectionOf(captured[sinkLog[k].frame]) = "FROM_CLIENT"
                 THEN "packetFromClient" ELSE "packetFromServer")
    /\ \A j, k \in 1..Len(sinkLog) :
          (j < k /\ sinkLog[j].ev = "call" /\ sinkLog[k].ev = "call")
              => sinkLog[j].frame < sinkLog[k].frame
    /\ {sinkLog[k].frame : k \in 1..Len(sinkLog)}
          = {i \in 1..Len(captured) : Dispatched(captured[i])}

\* Two frames of different directions were dispatched one after the other.
C2_Witness ==
    /\ Len(sinkLog) >= 4
    /\ sinkLog[1].sink # sinkLog[3].sink
    /\ sinkLog[2].ev = "return"
    /\ sinkLog[4].ev = "return"

\* C3: a frame the framer rejects is dropped: no sink is called, nothing is
\* raised, the loop keeps capturing, and later frames are still dispatched.
C3_ParseFailureDropped ==
    /\ [](\A i, j \in 1..Len(captured) :
            (i < j /\ ~Parsed(captured[i]) /\ Dispatched(captured[j]))
                => \E k \in 1..Len(sinkLog) :
                      sinkLog[k].ev = "call" /\ sinkLog[k].frame = j)
    /\ [][(/\ Len(captured') = Len(captured) + 1
           /\ ~Parsed(captured'[Len(captured')]))
              => /\ sinkLog' = sinkLog
                 /\ loopPc' = "capturing"
                 /\ loopEnd' = loopEnd
                 /\ completion' = completion]_vars

\* A fragmented frame was dropped and the next frame reached its sink.
C3_Witness ==
    /\ Len(captured) = 2
    /\ captured[1].mf
    /\ Len(sinkLog) = 2
    /\ sinkLog[2].ev = "return"
    /\ sinkLog[2].frame = 2

\* The first known entry of a list of datalinks, 0 when there is none.
FirstKnown(list) ==
    LET known == {i \in 1..Len(list) : isDatalinkKnown(list[i])}
    IN  IF known = {} THEN 0 ELSE CHOOSE i \in known : \A j \in known : i <= j

\* C4: a known current datalink is kept and setDatalink is not called;
\* otherwise setDatalink is called exactly once, with the first known entry
\* of the supported list; when the list cannot be obtained or holds no known
\* entry the negotiation fails and the datalink is left as it was.
C4_DatalinkNegotiation ==
    dlBefore # <<>> =>
        LET cur == dlBefore[1]
        IN  IF isDatalinkKnown(cur)
            THEN /\ setCalls = <<>>
                 /\ datalink = cur
                 /\ startPc = "negotiated"
            ELSE /\ supportedRes # <<>>
                 /\ IF /\ isSuccess(supportedRes[1])
                       /\ FirstKnown(supportedRes[1].result[1]) # 0
                    THEN LET list == supportedRes[1].result[1]
                             first == list[FirstKnown(list)]
                         IN  /\ setCalls = <<first>>
                             /\ datalink \in {cur, first}
                             /\ startPc = "negotiated" => datalink = first
                    ELSE /\ setCalls = <<>>
                         /\ datalink = cur
                         /\ startPc = "failed"
                         /\ startError # <<>>

\* The current datalink was unknown, the list held an unknown entry before a
\* known one, and the known one was installed.
C4_Witness ==
    /\ dlBefore = <<"IEEE802_11">>
    /\ supportedRes # <<>>
    /\ isSuccess(supportedRes[1])
    /\ supportedRes[1].result = << <<"IEEE802_11", "RAW">> >>
    /\ setCalls = <<"RAW">>
    /\ datalink = "RAW"
    /\ startPc = "negotiated"

\* C5: an error raised by a sink does not leave the capture callback: the
\* capture loop never ends by it.
C5_ErrorsStayInCallback ==
    (\E k \in 1..Len(sinkLog) : sinkLog[k].ev = "throw") => loopEnd # "exception"

\* C6: the completion signal resolves to true or to false, to true exactly
\* when the loop ended by a break or a clean end of capture and to false
\* exactly when it ended by a fatal error; after a breakLoop call made while
\* the loop was running, a loop that has ended has resolved it to true.
C6_CompletionSignal ==
    /\ completion \in {"none", "pending", "clean", "notClean"}
    /\ (completion = "clean") <=> (loopEnd \in {"break", "eof"})
    /\ (completion = "notClean") <=> (loopEnd = "error")
    /\ (stopRunning /\ loopPc \in {"ended", "terminated"}) => completion = "clean"

\* C7: a breakLoop call touches nothing but the break request, a call made
\* when a break is already requested changes nothing, and a loop that has
\* ended stays ended with its completion signal unchanged.
C7_StopIdempotent ==
    [][/\ (stopCalls' # stopCalls) =>
              UNCHANGED <<loopVars, startVars, endpointVars>>
       /\ (stopCalls' # stopCalls /\ breakFlag) => breakFlag' = breakFlag
       /\ (loopPc \in {"ended", "terminated"}) =>
              UNCHANGED <<loopPc, loopEnd, completion>>]_vars

\* breakLoop was called twice, once at least while the loop was running, and
\* the loop ended by the break with a clean completion signal.
C7_Witness ==
    /\ stopCalls >= 2
    /\ stopRunning
    /\ loopEnd = "break"
    /\ completion = "clean"

\* The diagnostic string of a Result.
DiagnosticOf(res) ==
    IF res.errorMessage = <<>> THEN "(no error message)" ELSE res.errorMessage[1]

StepNames ==
    {"opening device", "getting supported datalinks",
     "setting supported datalink", "setting filter"}

ExpectedFilter(addr, port) ==
    CASE addr = "1.2.3.4" /\ port = 29070 ->
            "udp and ((dst 1.2.3.4 and dst port 29070) or (src 1.2.3.4 and src port 29070))"
      [] addr = "192.168.1.10" /\ port = 80 ->
            "udp and ((dst 192.168.1.10 and dst port 80) or (src 192.168.1.10 and src port 80))"

\* C9: the filter string is "udp and ((dst A and dst port P) or (src A and
\* src port P))" for the server address A and the decimal port P, whatever
\* else the listener has seen.
C9_FilterString ==
    filterStr # <<>> => filterStr = <<ExpectedFilter(serverAddr, serverPort)>>

\* The filter of scenario 5 was generated.
C9_Witness ==
    /\ serverAddr = "1.2.3.4"
    /\ serverPort = 29070
    /\ filterStr = <<"udp and ((dst 1.2.3.4 and dst port 29070) or (src 1.2.3.4 and src port 29070))">>

====
